---- MODULE Spec2Model ----
(***************************************************************************)
(* SmartVote: the face-verified vote pipeline.                             *)
(*                                                                         *)
(* State: the users table (lockout columns and enrolled template), the     *)
(* votes table with its unique constraint, the wall clock, and one         *)
(* process_vote_submission call per browser session (Streamlit runs each   *)
(* session's script in its own thread, every `with session_scope()` block  *)
(* is its own database session).  The functions of face_utils.py are pure; *)
(* call holds the arguments and the result of one call of them.            *)
(***************************************************************************)
EXTENDS Integers, Sequences, FiniteSets, TLC

VARIABLES now, users, votes, pc, att, ghost, scenario, call

vars == <<now, users, votes, pc, att, ghost, scenario, call>>

-----------------------------------------------------------------------------
(* Bounds of the model *)

\* the clock runs 0..MaxTime (minutes)
MaxTime == 5
\* no new attempt is started for a voter whose counter reached MaxCount
MaxCount == 6

(* Program constants *)

FAILED_FACE_LIMIT == 5
FAILED_FACE_COOLDOWN_MIN == 5

-----------------------------------------------------------------------------
(* The data the attempts are drawn from *)

Procs == {"s1", "s2"}

\* what is explored: two browser sessions racing at one instant of the
\* clock, or one session submitting again and again while the clock runs
\* past the cooldown
Scenarios ==
    {[sessions |-> Procs, clock |-> FALSE],
     [sessions |-> {"s1"}, clock |-> TRUE]}
Voters == {"v1", "v2"}
Elections == {"e1", "e2"}
Candidates == {"c1", "c2"}

\* a nullable column that holds NULL / a Python None
None == << >>

\* embeddings are vectors of the plane with coordinates in tenths: <<6, 8>>
\* is (0.6, 0.8).  One is the number 1.0, the length of a normalised vector.
One == 10

\* what generate_face_embedding returns is normalised
EnrolledTemplate == <<6, 8>>
LiveTemplates == {<<6, 8>>, <<8, 6>>, <<-8, 6>>}

\* the arguments the functions of face_utils.py are called with: unit
\* vectors, vectors of other lengths, the zero vector
Embeddings ==
    {<<10, 0>>, <<0, 10>>, <<-10, 0>>, <<6, 8>>, <<8, 6>>, <<-6, 8>>,
     <<6, -8>>, <<-6, -8>>, <<0, 0>>, <<3, 4>>, <<30, 40>>, <<0, 5>>}

\* thresholds in tenths; 8 is the default 0.8 of verify_face
Thresholds == {-1, 0, 8, 10, 12, 16, 20}

\* a bytes value: the empty one, and the pickle of a float32 array
EmptyBytes == [bytes |-> << >>]

Outcomes ==
    {"Locked", "LivenessFailed", "SpoofDetected", "NoEnrolledTemplate",
     "FaceMismatch", "AlreadyVoted", "VoteRecorded"}

-----------------------------------------------------------------------------
(* face_utils.py *)

Dot(a, b) == a[1] * b[1] + a[2] * b[2]

\* np.linalg.norm of an embedding; the embeddings of the model have lengths
\* that are whole tenths
Norm(e) == CHOOSE n \in 0 .. Dot(e, e) : n * n = Dot(e, e)

\* normalize_embedding: the zero vector is returned as it is
normalize_embedding(e) ==
    LET norm == Norm(e)
    IN  IF norm = 0 THEN e
        ELSE <<(e[1] * One) \div norm, (e[2] * One) \div norm>>

\* embedding_to_blob casting to whole numbers (astype(np.int32)), rounding
\* every coordinate towards zero
embedding_to_blob_int(embedding) ==
    LET trunc(x) == IF x >= 0 THEN (x \div One) * One
                    ELSE 0 - (((0 - x) \div One) * One)
    IN  IF embedding = None THEN None
        ELSE [bytes |-> <<"int32", trunc(embedding[1]), trunc(embedding[2])>>]

\* embedding_to_blob: the pickle of the float32 array, its dtype and its data
embedding_to_blob(embedding) ==
    IF embedding = None THEN None
    ELSE [bytes |-> <<"float32">> \o embedding]

\* blob_to_embedding: an empty or missing blob is no template; the array
\* unpickled from any other blob is normalised
blob_to_embedding(blob) ==
    IF blob = None \/ blob = EmptyBytes THEN None
    ELSE normalize_embedding(Tail(blob.bytes))

\* float("inf"), and a finite distance, kept as its square in hundredths
Infinity == [inf |-> TRUE, sq |-> 0]
Distance(sq) == [inf |-> FALSE, sq |-> sq]

\* verify_face that tests only the registered embedding for None and takes
\* a missing live embedding for the zero vector
verify_face_threshold_live_unchecked(registered_embedding, live_embedding, threshold) ==
    IF registered_embedding = None
    THEN [match |-> FALSE, distance |-> Infinity]
    ELSE LET reg == normalize_embedding(registered_embedding)
             live == IF live_embedding = None THEN <<0, 0>>
                     ELSE normalize_embedding(live_embedding)
             diff == <<reg[1] - live[1], reg[2] - live[2]>>
         IN  [match |-> threshold >= 0 /\ Dot(diff, diff) <= threshold * threshold,
              distance |-> Distance(Dot(diff, diff))]

\* verify_face with distance < threshold for distance <= threshold
verify_face_threshold_strict(registered_embedding, live_embedding, threshold) ==
    IF registered_embedding = None \/ live_embedding = None
    THEN [match |-> FALSE, distance |-> Infinity]
    ELSE LET reg == normalize_embedding(registered_embedding)
             live == normalize_embedding(live_embedding)
             diff == <<reg[1] - live[1], reg[2] - live[2]>>
         IN  [match |-> threshold >= 0 /\ Dot(diff, diff) < threshold * threshold,
              distance |-> Distance(Dot(diff, diff))]

\* verify_face with its threshold argument: the pair (match, distance).
\* distance <= threshold is decided on the squares, a negative threshold is
\* below every distance.
verify_face_threshold(registered_embedding, live_embedding, threshold) ==
    IF registered_embedding = None \/ live_embedding = None
    THEN [match |-> FALSE, distance |-> Infinity]
    ELSE LET reg == normalize_embedding(registered_embedding)
             live == normalize_embedding(live_embedding)
             diff == <<reg[1] - live[1], reg[2] - live[2]>>
         IN  [match |-> threshold >= 0 /\ Dot(diff, diff) <= threshold * threshold,
              distance |-> Distance(Dot(diff, diff))]

\* verify_face with the default threshold 0.8.  Both vectors are normalised
\* (the zero vector is left as it is) and the Euclidean distance d of the
\* results is compared with 0.8.  For two non-zero vectors
\* d^2 = 2 - 2 cos, so d <= 0.8 iff cos >= 0.68; for one zero vector d = 1;
\* for two zero vectors d = 0.
verify_face(registered_embedding, live_embedding) ==
    IF registered_embedding = None \/ live_embedding = None THEN FALSE
    ELSE LET rr == Dot(registered_embedding, registered_embedding)
             ll == Dot(live_embedding, live_embedding)
             rl == Dot(registered_embedding, live_embedding)
         IN  IF rr = 0 /\ ll = 0 THEN TRUE
             ELSE IF rr = 0 \/ ll = 0 THEN FALSE
             ELSE rl >= 0 /\ 10000 * rl * rl >= 4624 * rr * ll

\* deepface_liveness_check with a classifier that rejects the capture
deepface_liveness_check_rejects == FALSE

\* deepface_liveness_check: the anti-spoof stage is disabled and always passes
deepface_liveness_check == TRUE

\* Checks with the mismatch return (app.py 387-392) left out
Checks_mismatch_accepted(registered_embedding, liveness_ok, enable_antispoof, live) ==
    LET r == [liveness_ok |-> "none", spoof_ok |-> "none",
              live_embedding |-> "none", match |-> "none", next |-> ""]
    IN
    IF ~ liveness_ok
    THEN [r EXCEPT !.liveness_ok = "fail", !.next = "LivenessFailed"]
    ELSE LET s == [r EXCEPT !.liveness_ok = "pass",
                            !.spoof_ok = IF enable_antispoof THEN "pass" ELSE "none"]
         IN  IF live = None
             THEN [s EXCEPT !.live_embedding = "absent", !.next = "NoFaceDetected"]
             ELSE [s EXCEPT !.live_embedding = "present",
                            !.match = IF verify_face(registered_embedding, live)
                                      THEN "pass" ELSE "fail",
                            !.next = "commit"]

\* Checks with the liveness return (app.py 361-369) left out
Checks_liveness_ignored(registered_embedding, liveness_ok, enable_antispoof, live) ==
    LET s == [liveness_ok |-> IF liveness_ok THEN "pass" ELSE "fail",
              spoof_ok |-> IF enable_antispoof THEN "pass" ELSE "none",
              live_embedding |-> "none", match |-> "none", next |-> ""]
    IN  IF live = None
        THEN [s EXCEPT !.live_embedding = "absent", !.next = "NoFaceDetected"]
        ELSE IF ~ verify_face(registered_embedding, live)
        THEN [s EXCEPT !.live_embedding = "present", !.match = "fail",
                       !.next = "FaceMismatch"]
        ELSE [s EXCEPT !.live_embedding = "present", !.match = "pass",
                       !.next = "commit"]

\* app.py 360-392: the checks on the live capture, in the order of the code,
\* each with its early return.  liveness_ok is the result of
\* perform_basic_liveness_check on the capture, live the result of
\* generate_face_embedding.  next is where the call goes on.
Checks(registered_embedding, liveness_ok, enable_antispoof, live) ==
    LET r == [liveness_ok |-> "none", spoof_ok |-> "none",
              live_embedding |-> "none", match |-> "none", next |-> ""]
    IN
    IF ~ liveness_ok
    THEN [r EXCEPT !.liveness_ok = "fail", !.next = "LivenessFailed"]
    ELSE IF enable_antispoof /\ ~ deepface_liveness_check
    THEN [r EXCEPT !.liveness_ok = "pass", !.spoof_ok = "fail",
                   !.next = "SpoofDetected"]
    ELSE LET s == [r EXCEPT !.liveness_ok = "pass",
                            !.spoof_ok = IF enable_antispoof THEN "pass" ELSE "none"]
         IN  IF live = None
             THEN [s EXCEPT !.live_embedding = "absent", !.next = "NoFaceDetected"]
             ELSE IF ~ verify_face(registered_embedding, live)
             THEN [s EXCEPT !.live_embedding = "present", !.match = "fail",
                            !.next = "FaceMismatch"]
             ELSE [s EXCEPT !.live_embedding = "present", !.match = "pass",
                            !.next = "commit"]

-----------------------------------------------------------------------------
(* auth.py *)

\* can_attempt_face_verification with > for >= in the cooldown comparison
can_attempt_face_verification_strict(user, t) ==
    IF user.failed_face_attempts < FAILED_FACE_LIMIT THEN TRUE
    ELSE IF user.last_failed_face_at = None THEN TRUE
    ELSE t > user.last_failed_face_at[1] + FAILED_FACE_COOLDOWN_MIN

\* can_attempt_face_verification(user) evaluated at clock t
can_attempt_face_verification(user, t) ==
    IF user.failed_face_attempts < FAILED_FACE_LIMIT THEN TRUE
    ELSE IF user.last_failed_face_at = None THEN TRUE
    ELSE t >= user.last_failed_face_at[1] + FAILED_FACE_COOLDOWN_MIN

\* record_failed_face_attempt without the time stamp
record_failed_face_attempt_no_stamp(user, row, t) ==
    [row EXCEPT !.failed_face_attempts = user.failed_face_attempts + 1]

\* record_failed_face_attempt counting the failure twice
record_failed_face_attempt_twice(user, row, t) ==
    [row EXCEPT !.failed_face_attempts = user.failed_face_attempts + 2,
                !.last_failed_face_at  = <<t>>]

\* record_failed_face_attempt writing back a row built anew, without the
\* template
record_failed_face_attempt_new_row(user, row, t) ==
    [failed_face_attempts |-> user.failed_face_attempts + 1,
     last_failed_face_at  |-> <<t>>,
     face_embedding       |-> None]

\* record_failed_face_attempt that starts the count again at 1 when the
\* cooldown of the loaded user has elapsed
record_failed_face_attempt_restart(user, row, t) ==
    [row EXCEPT
        !.failed_face_attempts =
            IF /\ user.failed_face_attempts >= FAILED_FACE_LIMIT
               /\ can_attempt_face_verification(user, t)
            THEN 1 ELSE user.failed_face_attempts + 1,
        !.last_failed_face_at = <<t>>]

\* record_failed_face_attempt: the UPDATE of the row, its values computed
\* from the user object this session loaded
record_failed_face_attempt(user, row, t) ==
    [row EXCEPT !.failed_face_attempts = user.failed_face_attempts + 1,
                !.last_failed_face_at  = <<t>>]

\* reset_failed_face_attempts that leaves last_failed_face_at as it is
reset_failed_face_attempts_counter_only(user, row) ==
    [row EXCEPT
        !.failed_face_attempts =
            IF user.failed_face_attempts # 0 THEN 0 ELSE @]

\* reset_failed_face_attempts: the ORM object is set to (0, None); the flush
\* writes only the columns whose value differs from the loaded one
reset_failed_face_attempts(user, row) ==
    [row EXCEPT
        !.failed_face_attempts =
            IF user.failed_face_attempts # 0 THEN 0 ELSE @,
        !.last_failed_face_at =
            IF user.last_failed_face_at # None THEN None ELSE @]

\* Admission without the lockout check
Admission_no_lockout(user, t) ==
    IF user.face_embedding = None THEN "NoEnrolledTemplate" ELSE "checks"

\* app.py 352-357: what the first session decides about the loaded user
Admission(user, t) ==
    IF user.face_embedding = None THEN "NoEnrolledTemplate"
    ELSE IF ~ can_attempt_face_verification(user, t) THEN "Locked"
    ELSE "checks"

-----------------------------------------------------------------------------
(* db.py, admin.py *)

\* has_user_voted whose query finds no row
has_user_voted_never(rows, voter_id, election_id) == FALSE

\* has_user_voted
has_user_voted(rows, voter_id, election_id) ==
    \E r \in rows : r.voter_id = voter_id /\ r.election_id = election_id

\* the votes table without its unique constraint
uq_vote_per_voter_per_election_absent(rows, voter_id, election_id) == TRUE

\* uq_vote_per_voter_per_election: may a row for this pair be inserted
uq_vote_per_voter_per_election(rows, voter_id, election_id) ==
    ~ \E r \in rows : r.voter_id = voter_id /\ r.election_id = election_id

\* record_vote filing every vote under the first election
NewVote_first_election(rows, voter_id, election_id, candidate_id, t) ==
    [id |-> Cardinality(rows) + 1, voter_id |-> voter_id,
     election_id |-> "e1", candidate_id |-> candidate_id,
     timestamp |-> t]

\* the row record_vote adds: id is the autoincrement key, timestamp the
\* column default datetime.utcnow
NewVote(rows, voter_id, election_id, candidate_id, t) ==
    [id |-> Cardinality(rows) + 1, voter_id |-> voter_id,
     election_id |-> election_id, candidate_id |-> candidate_id,
     timestamp |-> t]

\* get_user_by_id: the lockout columns and template of the loaded row
get_user_by_id(v) == users[v]

-----------------------------------------------------------------------------
(* One call of process_vote_submission *)

NoRow == [failed_face_attempts |-> 0, last_failed_face_at |-> None]

NoAttempt ==
    [voter |-> "", election |-> "", user |-> NoRow, lockout |-> "none",
     liveness_ok |-> "none", spoof_ok |-> "none", live_embedding |-> "none",
     match |-> "none", ledger |-> FALSE, inserted |-> FALSE,
     failing |-> "", alone |-> TRUE, outcome |-> ""]

\* the call returns (or raises): its locals are gone, the outcome is what the
\* voter is shown
Return(v, outcome) == [NoAttempt EXCEPT !.voter = v, !.outcome = outcome]

InFlight(q) == pc[q] \notin {"idle", "done"}

\* no function of face_utils.py has been called on its own
NoCall == [op |-> "none"]

LockoutColumns(user) ==
    [failed_face_attempts |-> user.failed_face_attempts,
     last_failed_face_at  |-> user.last_failed_face_at]

\* the state: users and votes are the tables of db.py, now is
\* datetime.utcnow(), pc and att are the position and the locals of each
\* session's process_vote_submission call, ghost counts per voter the
\* record_failed_face_attempt calls made one after the other since the last
\* reset and remembers the time of the last of them
TypeOK ==
    /\ scenario \in Scenarios
    /\ call.op \in {"none", "verify_face", "embedding_to_blob", "blob_to_embedding"}
    /\ now \in 0 .. MaxTime
    /\ \A v \in Voters :
         /\ users[v].failed_face_attempts \in 0 .. MaxCount + 1
         /\ users[v].last_failed_face_at \in {None} \cup {<<t>> : t \in 0 .. MaxTime}
         /\ users[v].face_embedding \in {None, embedding_to_blob(EnrolledTemplate)}
         /\ ghost[v].run \in 0 .. MaxCount + 1
         /\ ghost[v].lastFailureTime \in {None} \cup {<<t>> : t \in 0 .. MaxTime}
    /\ \A r \in votes :
         /\ r.id \in 1 .. Cardinality(votes)
         /\ r.voter_id \in Voters
         /\ r.election_id \in Elections
         /\ r.candidate_id \in Candidates
         /\ r.timestamp \in 0 .. MaxTime
    /\ \A p \in Procs :
         /\ pc[p] \in {"idle", "checks", "failRead", "failWrite", "commit",
                       "record_vote", "insert", "reset", "done"}
         /\ att[p].voter \in Voters \cup {""}
         /\ att[p].election \in Elections \cup {""}
         /\ att[p].outcome \in Outcomes \cup {"", "NoFaceDetected", "Raised"}

Init ==
    /\ scenario \in Scenarios
    /\ now = 0
    /\ users = [v \in Voters |->
                  [failed_face_attempts |-> 0,
                   last_failed_face_at  |-> None,
                   face_embedding |-> IF v = "v1"
                                      THEN embedding_to_blob(EnrolledTemplate)
                                      ELSE None]]
    /\ votes = {}
    /\ pc = [p \in Procs |-> "idle"]
    /\ att = [p \in Procs |-> NoAttempt]
    /\ ghost = [v \in Voters |-> [run |-> 0, lastFailureTime |-> None]]
    /\ call = NoCall

\* datetime.utcnow() moves on
Tick ==
    /\ scenario.clock
    /\ now < MaxTime
    /\ now' = now + 1
    /\ UNCHANGED <<users, votes, pc, att, ghost, scenario, call>>

\* app.py 350-358: the first session loads the user, checks the enrollment
\* and the lockout, and decodes the enrolled template
Start(p) ==
    /\ p \in scenario.sessions
    /\ pc[p] \in {"idle", "done"}
    /\ \E v \in Voters :
         /\ users[v].failed_face_attempts < MaxCount
            \/ ~ can_attempt_face_verification(users[v], now)
         /\ LET user == get_user_by_id(v)
                others == {q \in Procs \ {p} : InFlight(q) /\ att[q].voter = v}
                a == [NoAttempt EXCEPT
                        !.voter = v,
                        !.lockout = IF can_attempt_face_verification(user, now)
                                    THEN "pass" ELSE "fail",
                        !.alone = (others = {})]
                overlapped == [q \in Procs |->
                                 IF q \in others THEN [att[q] EXCEPT !.alone = FALSE]
                                 ELSE att[q]]
                next == Admission(user, now)
            IN  IF next = "checks"
                THEN /\ pc' = [pc EXCEPT ![p] = "checks"]
                     /\ att' = [overlapped EXCEPT ![p] = a]
                ELSE /\ pc' = [pc EXCEPT ![p] = "done"]
                     /\ att' = [overlapped EXCEPT ![p] = Return(v, next)]
    /\ UNCHANGED <<now, users, votes, ghost, scenario, call>>

\* RunChecks counting a capture without a face as a failed verification
RunChecks_noface_counted(p) ==
    /\ pc[p] = "checks"
    /\ LET reg == blob_to_embedding(users[att[p].voter].face_embedding)
       IN
       \E liveness_ok \in BOOLEAN, enable_antispoof \in BOOLEAN,
          live \in LiveTemplates \cup {None} :
         LET c == Checks(reg, liveness_ok, enable_antispoof, live)
             v == att[p].voter
         IN  IF c.next = "commit"
             THEN /\ pc' = [pc EXCEPT ![p] = "commit"]
                  /\ att' = [att EXCEPT ![p].liveness_ok = c.liveness_ok,
                                        ![p].spoof_ok = c.spoof_ok,
                                        ![p].live_embedding = c.live_embedding,
                                        ![p].match = c.match]
                  /\ users' = users
             ELSE IF c.next = "NoFaceDetected"
             THEN /\ pc' = [pc EXCEPT ![p] = "done"]
                  /\ att' = [att EXCEPT ![p] = Return(v, "NoFaceDetected")]
                  /\ users' = [users EXCEPT
                                 ![v] = record_failed_face_attempt(users[v], @, now)]
             ELSE /\ pc' = [pc EXCEPT ![p] = "failRead"]
                  /\ att' = [att EXCEPT ![p].liveness_ok = c.liveness_ok,
                                        ![p].spoof_ok = c.spoof_ok,
                                        ![p].live_embedding = c.live_embedding,
                                        ![p].match = c.match,
                                        ![p].failing = c.next]
                  /\ users' = users
    /\ UNCHANGED <<now, votes, ghost, scenario, call>>

\* app.py 360-392: liveness, optional anti-spoof, embedding extraction and
\* face comparison.  They touch no shared state; a failed check goes on to
\* record the failure, a capture without a face ends the call.
\* registered_embedding was decoded at line 358 from the template column,
\* which no operation writes, so it is read here.
RunChecks(p) ==
    /\ pc[p] = "checks"
    /\ LET reg == blob_to_embedding(users[att[p].voter].face_embedding)
       IN
       \E liveness_ok \in BOOLEAN, enable_antispoof \in BOOLEAN,
          live \in LiveTemplates \cup {None} :
         LET c == Checks(reg, liveness_ok, enable_antispoof, live)
             a == [att[p] EXCEPT !.liveness_ok = c.liveness_ok,
                                 !.spoof_ok = c.spoof_ok,
                                 !.live_embedding = c.live_embedding,
                                 !.match = c.match]
         IN  IF c.next = "commit"
             THEN /\ pc' = [pc EXCEPT ![p] = "commit"]
                  /\ att' = [att EXCEPT ![p] = a]
             ELSE IF c.next = "NoFaceDetected"
             THEN /\ pc' = [pc EXCEPT ![p] = "done"]
                  /\ att' = [att EXCEPT ![p] = Return(att[p].voter, "NoFaceDetected")]
             ELSE /\ pc' = [pc EXCEPT ![p] = "failRead"]
                  /\ att' = [att EXCEPT ![p] = [a EXCEPT !.failing = c.next]]
    /\ UNCHANGED <<now, users, votes, ghost, scenario, call>>

\* app.py 366-367, 375-376, 389-390: a new session loads the user again
FailRead(p) ==
    /\ pc[p] = "failRead"
    /\ pc' = [pc EXCEPT ![p] = "failWrite"]
    /\ att' = [att EXCEPT ![p].user = LockoutColumns(get_user_by_id(att[p].voter))]
    /\ UNCHANGED <<now, users, votes, ghost, scenario, call>>

\* app.py 368, 377, 391: record_failed_face_attempt commits the new counter
\* and the time stamp.  ghost counts the calls that ran one after the other.
FailWrite(p) ==
    /\ pc[p] = "failWrite"
    /\ LET v == att[p].voter
           consecutive == att[p].user = LockoutColumns(users[v])
       IN  /\ users' = [users EXCEPT
                          ![v] = record_failed_face_attempt(att[p].user, @, now)]
           /\ ghost' = [ghost EXCEPT
                          ![v] = [run |-> IF consecutive THEN @.run + 1 ELSE 0,
                                  lastFailureTime |-> <<now>>]]
           /\ pc' = [pc EXCEPT ![p] = "done"]
           /\ att' = [att EXCEPT ![p] = Return(v, att[p].failing)]
    /\ UNCHANGED <<now, votes, scenario, call>>

\* app.py 394-398: the last session loads the user and asks has_user_voted
\* (two reads with no write of this session between them, taken as one step);
\* election_id and candidate_id are arguments of the call, drawn where the
\* code first uses them
CommitRead(p) ==
    /\ pc[p] = "commit"
    /\ \E e \in Elections :
         LET v == att[p].voter
             a == [att[p] EXCEPT !.election = e,
                                 !.user = LockoutColumns(get_user_by_id(v)),
                                 !.ledger = TRUE]
         IN  IF has_user_voted(votes, v, e)
             THEN /\ pc' = [pc EXCEPT ![p] = "done"]
                  /\ att' = [att EXCEPT ![p] = Return(v, "AlreadyVoted")]
             ELSE /\ pc' = [pc EXCEPT ![p] = "record_vote"]
                  /\ att' = [att EXCEPT ![p] = a]
    /\ UNCHANGED <<now, users, votes, ghost, scenario, call>>

\* admin.py 67-68: record_vote asks has_user_voted again and raises
\* ValueError, which session_scope re-raises out of process_vote_submission
RecordVoteCheck(p) ==
    /\ pc[p] = "record_vote"
    /\ IF has_user_voted(votes, att[p].voter, att[p].election)
       THEN /\ pc' = [pc EXCEPT ![p] = "done"]
            /\ att' = [att EXCEPT ![p] = Return(att[p].voter, "Raised")]
       ELSE /\ pc' = [pc EXCEPT ![p] = "insert"]
            /\ att' = att
    /\ UNCHANGED <<now, users, votes, ghost, scenario, call>>

\* RecordVoteInsert as an INSERT OR REPLACE: the row of the pair is rewritten
RecordVoteInsert_replace(p) ==
    /\ pc[p] = "insert"
    /\ \E c \in Candidates :
         LET v == att[p].voter
             e == att[p].election
             kept == {r \in votes : r.voter_id # v \/ r.election_id # e}
         IN  /\ votes' = kept \cup {NewVote(votes, v, e, c, now)}
             /\ pc' = [pc EXCEPT ![p] = "reset"]
             /\ att' = [att EXCEPT ![p].inserted = TRUE]
    /\ UNCHANGED <<now, users, ghost, scenario, call>>

\* admin.py 69-72: the INSERT and its commit; the unique constraint of the
\* votes table refuses a second row for the pair with an IntegrityError,
\* which session_scope rolls back and re-raises
RecordVoteInsert(p) ==
    /\ pc[p] = "insert"
    /\ \E c \in Candidates :
         LET v == att[p].voter
             e == att[p].election
         IN  IF uq_vote_per_voter_per_election(votes, v, e)
             THEN /\ votes' = votes \cup {NewVote(votes, v, e, c, now)}
                  /\ pc' = [pc EXCEPT ![p] = "reset"]
                  /\ att' = [att EXCEPT ![p].inserted = TRUE]
             ELSE /\ votes' = votes
                  /\ pc' = [pc EXCEPT ![p] = "done"]
                  /\ att' = [att EXCEPT ![p] = Return(att[p].voter, "Raised")]
    /\ UNCHANGED <<now, users, ghost, scenario, call>>

\* app.py 405-406: reset_failed_face_attempts on the user loaded at 395
ResetAttempts(p) ==
    /\ pc[p] = "reset"
    /\ LET v == att[p].voter
       IN  /\ users' = [users EXCEPT
                          ![v] = reset_failed_face_attempts(att[p].user, @)]
           /\ ghost' = [ghost EXCEPT
                          ![v] = [run |-> 0, lastFailureTime |-> None]]
    /\ pc' = [pc EXCEPT ![p] = "done"]
    /\ att' = [att EXCEPT ![p] = Return(att[p].voter, "VoteRecorded")]
    /\ UNCHANGED <<now, votes, scenario, call>>

\* the call is stopped between two of its steps (the script thread is
\* stopped, the connection drops, the server dies): nothing runs after the
\* last statement that completed, what was committed stays committed, no
\* outcome is shown and the session is as it was before the call
Abandon(p) ==
    /\ InFlight(p)
    /\ pc' = [pc EXCEPT ![p] = "idle"]
    /\ att' = [att EXCEPT ![p] = NoAttempt]
    /\ UNCHANGED <<now, users, votes, ghost, scenario, call>>

Next ==
    \/ Tick
    \/ \E p \in Procs :
         \/ Start(p)
         \/ RunChecks(p)
         \/ FailRead(p)
         \/ FailWrite(p)
         \/ CommitRead(p)
         \/ RecordVoteCheck(p)
         \/ RecordVoteInsert(p)
         \/ ResetAttempts(p)
         \/ Abandon(p)

Spec == Init /\ [][Next]_vars

-----------------------------------------------------------------------------
(* The functions of face_utils.py, called on their own with arguments drawn *)
(* from Embeddings and Thresholds; the tables and the sessions stand still. *)
(* The functions keep no state, so a behaviour is one call, or one          *)
(* embedding_to_blob and the blob_to_embedding of its result.               *)

InitFace ==
    /\ Init
    /\ scenario = [sessions |-> {"s1"}, clock |-> TRUE]

\* verify_face(registered_embedding, live_embedding, threshold)
VerifyFace ==
    /\ call = NoCall
    /\ \E registered_embedding \in Embeddings \cup {None},
          live_embedding \in Embeddings \cup {None},
          threshold \in Thresholds :
         call' = [op |-> "verify_face",
                  registered_embedding |-> registered_embedding,
                  live_embedding |-> live_embedding,
                  threshold |-> threshold,
                  result |-> verify_face_threshold(registered_embedding,
                                                   live_embedding, threshold)]
    /\ UNCHANGED <<now, users, votes, pc, att, ghost, scenario>>

\* embedding_to_blob(embedding)
EmbeddingToBlob ==
    /\ call = NoCall
    /\ \E embedding \in Embeddings \cup {None} :
         call' = [op |-> "embedding_to_blob",
                  embedding |-> embedding,
                  result |-> embedding_to_blob(embedding)]
    /\ UNCHANGED <<now, users, votes, pc, att, ghost, scenario>>

\* blob_to_embedding(blob), of the blob embedding_to_blob has just returned
\* or of no bytes; encoded keeps the embedding the blob was made from
BlobToEmbedding ==
    /\ \/ /\ call.op = "embedding_to_blob"
          /\ call' = [op |-> "blob_to_embedding",
                      blob |-> call.result,
                      encoded |-> <<call.embedding>>,
                      result |-> blob_to_embedding(call.result)]
       \/ /\ call = NoCall
          /\ \E blob \in {None, EmptyBytes} :
               call' = [op |-> "blob_to_embedding",
                        blob |-> blob,
                        encoded |-> << >>,
                        result |-> blob_to_embedding(blob)]
    /\ UNCHANGED <<now, users, votes, pc, att, ghost, scenario>>

NextFace ==
    \/ VerifyFace
    \/ EmbeddingToBlob
    \/ BlobToEmbedding

SpecFace == InitFace /\ [][NextFace]_vars

-----------------------------------------------------------------------------
(* The lockout states of a voter *)

LockedAt(user, t) ==
    /\ user.failed_face_attempts >= FAILED_FACE_LIMIT
    /\ user.last_failed_face_at # None
    /\ t < user.last_failed_face_at[1] + FAILED_FACE_COOLDOWN_MIN

Locked(v) == LockedAt(users[v], now)

VerificationFailures == {"LivenessFailed", "SpoofDetected", "FaceMismatch"}

\* the step is a call of process_vote_submission by session p for voter v
StartsFor(p, v) ==
    /\ pc[p] \in {"idle", "done"}
    /\ att'[p].voter = v
    /\ pc'[p] # pc[p] \/ att'[p] # att[p]

\* the step ends the attempt of session p with this outcome
EndsWith(p, outcome) ==
    /\ InFlight(p)
    /\ pc'[p] = "done"
    /\ att'[p].outcome = outcome

\* while an attempt that no other attempt of its voter overlaps is under way,
\* nobody else writes the voter's row
AloneRowStable(p) ==
    (InFlight(p) /\ att[p].alone /\ pc'[p] # "done")
        => users'[att[p].voter] = users[att[p].voter]

-----------------------------------------------------------------------------
(* The claims *)

\* C1: in every reachable state the votes table holds at most one row for
\* each (voter id, election id) pair, whatever attempts were interleaved.
C1_AtMostOneVotePerPair ==
    \A r1 \in votes, r2 \in votes :
        (r1.voter_id = r2.voter_id /\ r1.election_id = r2.election_id) => r1 = r2

\* a second insert for a pair that already had its row was refused
C1_Witness ==
    /\ votes # {}
    /\ \E p \in Procs : att[p].outcome = "Raised"

\* C2: concurrent attempts for one pair that all pass verification end
\* VoteRecorded (one of them) or AlreadyVoted (the others); none ends with an
\* exception that leaves process_vote_submission.
C2_RacingAttemptsEndAlreadyVoted ==
    \A p \in Procs : att[p].outcome # "Raised"

\* C3: every row added to the votes table is added by an attempt of that
\* voter in which the voter had an enrolled template, the lockout check let
\* the attempt in, the liveness screen passed, the anti-spoof stage passed if
\* it was enabled, a live template was extracted and the comparison matched.
C3_VotesOnlyFromVerifiedAttempts ==
    [][votes' # votes =>
        \E p \in Procs :
            /\ pc[p] = "insert" /\ pc'[p] = "reset"
            /\ \E r \in votes' :
                 /\ votes' = votes \cup {r}
                 /\ r.voter_id = att[p].voter
                 /\ r.election_id = att[p].election
            /\ users[att[p].voter].face_embedding # None
            /\ att[p].lockout = "pass"
            /\ att[p].liveness_ok = "pass"
            /\ att[p].spoof_ok # "fail"
            /\ att[p].live_embedding = "present"
            /\ att[p].match = "pass"]_vars

\* an attempt with the anti-spoof stage enabled has just added its row
C3_Witness ==
    \E p \in Procs :
        /\ pc[p] = "reset"
        /\ att[p].inserted
        /\ att[p].spoof_ok = "pass"
        /\ has_user_voted(votes, att[p].voter, att[p].election)

\* C4: every failure an attempt records raises the stored counter by one, so
\* two attempts failing concurrently leave it 2 higher, in every interleaving
\* of their reads and writes.
C4_ConcurrentFailuresBothCounted ==
    [][\A p \in Procs :
         (pc[p] = "failWrite" /\ pc'[p] = "done") =>
            users'[att[p].voter].failed_face_attempts
                = users[att[p].voter].failed_face_attempts + 1]_vars

\* C5: after FAILED_FACE_LIMIT record_failed_face_attempt calls made one
\* after the other with no reset between them, can_attempt_face_verification
\* is false at every time before the last failure plus the cooldown.
C5_LockedUntilCooldown ==
    \A v \in Voters :
        ghost[v].run >= FAILED_FACE_LIMIT =>
            /\ ghost[v].lastFailureTime # None
            /\ now < ghost[v].lastFailureTime[1] + FAILED_FACE_COOLDOWN_MIN
                 => ~ can_attempt_face_verification(users[v], now)

\* the last minute of the cooldown after the limit was reached
C5_Witness ==
    \E v \in Voters :
        /\ ghost[v].run >= FAILED_FACE_LIMIT
        /\ ghost[v].lastFailureTime # None
        /\ now = ghost[v].lastFailureTime[1] + FAILED_FACE_COOLDOWN_MIN - 1

\* C6: can_attempt_face_verification is false exactly when the counter is at
\* least the limit, a last-failure time is set and the clock is before that
\* time plus the cooldown; at that time plus the cooldown it is true.
C6_MayAttemptIffNotLocked ==
    /\ \A v \in Voters :
         can_attempt_face_verification(users[v], now) = ~ Locked(v)
    /\ \A n \in 0 .. MaxCount + 1 :
         \A l \in {None} \cup {<<t>> : t \in 0 .. MaxTime} :
            LET user == [failed_face_attempts |-> n, last_failed_face_at |-> l]
            IN  can_attempt_face_verification(user, now) = ~ LockedAt(user, now)

\* the counter is at the limit and the cooldown ends at this very minute
C6_Witness ==
    \E v \in Voters :
        /\ users[v].failed_face_attempts >= FAILED_FACE_LIMIT
        /\ users[v].last_failed_face_at # None
        /\ now = users[v].last_failed_face_at[1] + FAILED_FACE_COOLDOWN_MIN
        /\ can_attempt_face_verification(users[v], now)

\* C7: an attempt ends VoteRecorded only through reset_failed_face_attempts,
\* after its insert; if no other attempt of the voter overlapped it, the
\* voter's counter is 0 and the last-failure time is cleared when it ends,
\* whatever the counter was.
C7_VoteRecordedResetsLockout ==
    [][\A p \in Procs :
         /\ AloneRowStable(p)
         /\ EndsWith(p, "VoteRecorded") =>
              /\ pc[p] = "reset"
              /\ att[p].inserted
              /\ att[p].alone =>
                   /\ users'[att[p].voter].failed_face_attempts = 0
                   /\ users'[att[p].voter].last_failed_face_at = None]_vars

\* an attempt nobody overlapped is about to reset a counter at the limit
C7_Witness ==
    \E p \in Procs :
        /\ pc[p] = "reset"
        /\ att[p].alone
        /\ att[p].inserted
        /\ users[att[p].voter].failed_face_attempts >= FAILED_FACE_LIMIT

\* C8: an attempt that ends LivenessFailed, SpoofDetected or FaceMismatch
\* ends in its one record_failed_face_attempt call and adds no vote; if no
\* other attempt of the voter overlapped it, the counter is then 1 higher
\* than before the attempt and the last-failure time is the time of the call.
C8_FailureRecordedOnce ==
    [][\A p \in Procs :
         /\ AloneRowStable(p)
         /\ (\E o \in VerificationFailures : EndsWith(p, o)) =>
              /\ pc[p] = "failWrite"
              /\ att'[p].outcome = att[p].failing
              /\ ~ att[p].inserted
              /\ votes' = votes
              /\ att[p].alone =>
                   /\ users'[att[p].voter].failed_face_attempts
                        = users[att[p].voter].failed_face_attempts + 1
                   /\ users'[att[p].voter].last_failed_face_at = <<now>>]_vars

\* the only session has just failed the comparison for the third time
C8_Witness ==
    \E p \in Procs :
        /\ scenario.sessions = {p}
        /\ att[p].outcome = "FaceMismatch"
        /\ users[att[p].voter].failed_face_attempts = 3
        /\ users[att[p].voter].last_failed_face_at = <<now>>
        /\ votes = {}

\* C9: an attempt started while its voter is Locked ends at once with
\* outcome Locked: no check of the capture runs, and the users and votes
\* tables are as before.
C9_LockedAttemptChangesNothing ==
    [][\A p \in Procs, v \in Voters :
         (StartsFor(p, v) /\ Locked(v)) =>
            /\ pc'[p] = "done"
            /\ att'[p].outcome = "Locked"
            /\ users' = users
            /\ votes' = votes]_vars

\* a locked voter was just told so
C9_Witness ==
    \E p \in Procs :
        /\ pc[p] = "done"
        /\ att[p].outcome = "Locked"
        /\ Locked(att[p].voter)

\* C10: in every attempt under way each stage has run only after all the
\* stages before it passed, in the order lockout, liveness, anti-spoof,
\* comparison, commit; an attempt whose liveness screen failed computed no
\* comparison and did not touch the votes table, and no attempt is under way
\* for which the lockout check failed.
C10_StagesInOrder ==
    \A p \in Procs :
        InFlight(p) =>
            LET a == att[p]
            IN  /\ a.lockout = "pass"
                /\ a.liveness_ok # "none" <=> pc[p] # "checks"
                /\ a.spoof_ok # "none" => a.liveness_ok = "pass"
                /\ a.live_embedding # "none" =>
                     a.liveness_ok = "pass" /\ a.spoof_ok # "fail"
                /\ a.match # "none" => a.live_embedding = "present"
                /\ a.ledger => a.match = "pass"
                /\ a.inserted => a.ledger
                /\ pc[p] \in {"commit", "record_vote", "insert", "reset"}
                     => a.match = "pass"
                /\ a.liveness_ok = "fail" =>
                     /\ a.failing = "LivenessFailed"
                     /\ a.live_embedding = "none"
                     /\ a.match = "none"
                     /\ ~ a.ledger
                /\ a.failing = "LivenessFailed" => a.liveness_ok = "fail"

\* an attempt whose liveness screen failed is about to record the failure
C10_Witness ==
    \E p \in Procs :
        /\ pc[p] = "failWrite"
        /\ att[p].failing = "LivenessFailed"
        /\ att[p].match = "none"

-----------------------------------------------------------------------------
\* C11: an attempt that passed verification for a (voter, election) pair
\* which already has a vote ends AlreadyVoted and writes nothing: the step
\* at app.py 394-398 leaves the users and the votes table as they are, it
\* ends the call only with AlreadyVoted and only for a voter who has a vote,
\* and it goes on to record_vote only for a pair that has no vote.
C11_AlreadyVotedChangesNothing ==
    [][\A p \in Procs :
         (pc[p] = "commit" /\ pc'[p] \in {"done", "record_vote"}) =>
             LET v == att[p].voter
             IN  /\ users' = users
                 /\ votes' = votes
                 /\ pc'[p] = "done" =>
                      /\ att'[p].outcome = "AlreadyVoted"
                      /\ \E r \in votes : r.voter_id = v
                 /\ pc'[p] = "record_vote" =>
                      ~ \E r \in votes : /\ r.voter_id = v
                                         /\ r.election_id = att'[p].election]_vars

\* a verified attempt ended AlreadyVoted while the voter's failure counter
\* and time stamp, set by an earlier failure, are still in place
C11_Witness ==
    \E p \in Procs :
        /\ att[p].outcome = "AlreadyVoted"
        /\ \E r \in votes : r.voter_id = att[p].voter
        /\ users[att[p].voter].failed_face_attempts > 0
        /\ users[att[p].voter].last_failed_face_at # None

-----------------------------------------------------------------------------
\* C12: votes are immutable: a row of the votes table, once there, is there
\* in every later state with the same voter, election, candidate and
\* timestamp; no step deletes or rewrites it, whatever the later attempts
\* of the voter ask for.
C12_VotesImmutable ==
    [][\A r \in votes : r \in votes']_vars

\* a vote cast at an earlier minute is still there after a later verified
\* attempt of the same voter was turned away
C12_Witness ==
    \E p \in Procs, r \in votes :
        /\ r.timestamp < now
        /\ r.voter_id = att[p].voter
        /\ att[p].outcome = "AlreadyVoted"

-----------------------------------------------------------------------------
\* C13: an attempt stopped before its outcome leaves the persisted state as
\* it was; the vote insert and the reset of the failure counter take effect
\* together or not at all.  Stated on the step that stops the attempt: the
\* attempt has inserted no vote, or the voter's failure counter and time
\* stamp are cleared as well.
C13_AbandonedAttemptChangesNothing ==
    [][\A p \in Procs :
         (InFlight(p) /\ pc'[p] = "idle") =>
             \/ ~ att[p].inserted
             \/ LockoutColumns(users[att[p].voter]) = NoRow]_vars

-----------------------------------------------------------------------------
\* C14: every attempt ends with exactly one terminal outcome, one of the
\* seven values Locked, LivenessFailed, SpoofDetected, NoEnrolledTemplate,
\* FaceMismatch, AlreadyVoted, VoteRecorded, returned as a result and not
\* raised: a call that ran to its end shows one of the seven.
C14_OutcomeIsOneOfSeven ==
    \A p \in Procs :
        pc[p] = "done" => att[p].outcome \in Outcomes

-----------------------------------------------------------------------------
\* C15: the pipeline writes only the failure counter and the last-failure
\* time stamp of a user row: no step adds or removes a voter or changes the
\* enrolled template of one, over any sequence of attempts.
C15_TemplateNeverWritten ==
    [][/\ DOMAIN users' = DOMAIN users
       /\ \A v \in Voters :
            users'[v].face_embedding = users[v].face_embedding]_vars

\* one session recorded a vote and reset the lockout columns, the other
\* recorded a failure, and the voter's template is still enrolled
C15_Witness ==
    \E p, q \in Procs, v \in Voters :
        /\ att[p].voter = v /\ att[p].outcome = "VoteRecorded"
        /\ att[q].voter = v /\ att[q].outcome \in VerificationFailures
        /\ users[v].failed_face_attempts >= 1
        /\ users[v].face_embedding # None

-----------------------------------------------------------------------------
\* C16: fail-closed on a missing template: verify_face called with no
\* registered embedding or with no live embedding returns (False, inf),
\* whatever the threshold and the other embedding are.
C16_AbsentTemplateFailsClosed ==
    (/\ call.op = "verify_face"
     /\ call.registered_embedding = None \/ call.live_embedding = None)
        => /\ call.result.match = FALSE
           /\ call.result.distance = Infinity

\* verify_face was called with an enrolled template, no live embedding and
\* the widest threshold
C16_Witness ==
    /\ call.op = "verify_face"
    /\ call.registered_embedding = EnrolledTemplate
    /\ call.live_embedding = None
    /\ call.threshold = 20
    /\ call.result.match = FALSE

-----------------------------------------------------------------------------
\* C17: a zero-vector template is no usable template: verify_face returns
\* match = False whenever the registered or the live embedding is the zero
\* vector, both being zero included.
C17_ZeroVectorNeverMatches ==
    (/\ call.op = "verify_face"
     /\ call.registered_embedding # None
     /\ call.live_embedding # None
     /\ \/ Norm(call.registered_embedding) = 0
        \/ Norm(call.live_embedding) = 0)
        => call.result.match = FALSE

-----------------------------------------------------------------------------
\* C18: the decision is inclusive at the threshold and symmetric: match is
\* True when the distance equals the threshold, False when the distance is
\* greater, and the result is the same with the two embeddings swapped.
C18_InclusiveAndSymmetric ==
    (/\ call.op = "verify_face"
     /\ call.registered_embedding # None
     /\ call.live_embedding # None)
        => LET d == call.result.distance
               t == call.threshold
           IN  /\ ~ d.inf
               /\ (t >= 0 /\ d.sq = t * t) => call.result.match
               /\ (t < 0 \/ d.sq > t * t) => ~ call.result.match
               /\ call.result = verify_face_threshold(call.live_embedding,
                                                      call.registered_embedding, t)

\* two different unit vectors at distance 1.2 were compared with threshold
\* 1.2 and matched
C18_Witness ==
    /\ call.op = "verify_face"
    /\ call.registered_embedding = <<6, 8>>
    /\ call.live_embedding = <<-6, 8>>
    /\ call.threshold = 12
    /\ call.result.distance = Distance(144)
    /\ call.result.match

-----------------------------------------------------------------------------
-----------------------------------------------------------------------------
\* C20: no attempt records a failure or commits a vote for a voter who is
\* Locked at that moment, concurrent attempts of the voter included: in the
\* step in which an attempt writes the failure counter or inserts its vote,
\* the voter is not Locked.
C20_NoWriteWhileLocked ==
    [][\A p \in Procs :
         (/\ pc[p] \in {"failWrite", "insert"}
          /\ pc'[p] # pc[p]
          /\ users' # users \/ votes' # votes)
            => ~ Locked(att[p].voter)]_vars

-----------------------------------------------------------------------------
-----------------------------------------------------------------------------
\* C22: in every reachable state the failure counter of each voter is a
\* non-negative integer, and it is 0 exactly when the last-failure time
\* stamp is absent, whatever the interleaving of the writes.
C22_CounterZeroIffNoStamp ==
    \A v \in Voters :
        /\ users[v].failed_face_attempts \in Nat
        /\ users[v].failed_face_attempts = 0
             <=> users[v].last_failed_face_at = None

\* two sessions of one voter have written the row, one a failure and one
\* the reset after its vote, and the row holds a counter of 2 or more with
\* its time stamp
C22_Witness ==
    \E p, q \in Procs, v \in Voters :
        /\ p # q
        /\ att[p].voter = v /\ att[p].outcome = "VoteRecorded"
        /\ att[q].voter = v /\ att[q].outcome \in VerificationFailures
        /\ users[v].failed_face_attempts >= 2
        /\ users[v].last_failed_face_at # None

-----------------------------------------------------------------------------
\* C23: an attempt that ends because the voter has no enrolled template or
\* because no face was found in the capture writes nothing: it ends in its
\* first step or in the step of the checks, and no step a session takes
\* from there changes a user row or the votes table, so no number of such
\* attempts moves the voter towards Locked.
C23_NoTemplateNoFaceChangeNothing ==
    [][\A p \in Procs :
         LET steps == pc'[p] # pc[p] \/ att'[p] # att[p]
         IN  /\ (/\ steps
                 /\ pc'[p] = "done"
                 /\ att'[p].outcome \in {"NoEnrolledTemplate", "NoFaceDetected"})
                    => pc[p] \in {"idle", "done", "checks"}
             /\ (steps /\ pc[p] \in {"idle", "done", "checks"})
                    => users' = users /\ votes' = votes]_vars

\* one session ended with no face found, the other with no enrolled
\* template, while the voter with the template is one failure short of the
\* limit
C23_Witness ==
    \E p, q \in Procs, v \in Voters :
        /\ att[p].voter = v /\ att[p].outcome = "NoFaceDetected"
        /\ att[q].outcome = "NoEnrolledTemplate"
        /\ users[v].failed_face_attempts = FAILED_FACE_LIMIT - 1

-----------------------------------------------------------------------------
\* C24: the outcome and the persisted state of an attempt do not depend on
\* the anti-spoof flag, and SpoofDetected is never produced.  The flag is
\* read in the step of the checks only: whatever that step did, the same
\* liveness result and the same live embedding give the same continuation,
\* the same stage results and the same outcome with the flag set and with
\* the flag not set (the record of the anti-spoof stage set aside), and the
\* step writes nothing.  No session ever stands on, or ends with,
\* SpoofDetected.
C24_FlagChangesNothing ==
    [][\A p \in Procs :
         /\ (pc[p] = "checks" /\ pc'[p] \notin {"checks", "idle"}) =>
              LET v == att[p].voter
                  reg == blob_to_embedding(users[v].face_embedding)
                  a(c) == [att[p] EXCEPT !.liveness_ok = c.liveness_ok,
                                         !.live_embedding = c.live_embedding,
                                         !.match = c.match]
                  Same(c) ==
                      IF c.next = "commit"
                      THEN /\ pc'[p] = "commit"
                           /\ [att'[p] EXCEPT !.spoof_ok = "none"] = a(c)
                      ELSE IF c.next = "NoFaceDetected"
                      THEN /\ pc'[p] = "done"
                           /\ att'[p] = Return(v, "NoFaceDetected")
                      ELSE /\ pc'[p] = "failRead"
                           /\ [att'[p] EXCEPT !.spoof_ok = "none"]
                                = [a(c) EXCEPT !.failing = c.next]
              IN  /\ \E liveness_ok \in BOOLEAN, live \in LiveTemplates \cup {None} :
                       \A enable_antispoof \in BOOLEAN :
                           Same(Checks(reg, liveness_ok, enable_antispoof, live))
                  /\ users' = users
                  /\ votes' = votes
         /\ att'[p].outcome # "SpoofDetected"
         /\ att'[p].failing # "SpoofDetected"
         /\ att'[p].spoof_ok # "fail"]_vars

\* two sessions passed the checks with the same results, one with the
\* anti-spoof stage run and one without, and stand at the same place
C24_Witness ==
    \E p, q \in Procs :
        /\ pc[p] = "commit" /\ pc[q] = "commit"
        /\ att[p].voter = att[q].voter
        /\ att[p].spoof_ok = "pass" /\ att[q].spoof_ok = "none"
        /\ att[p].match = att[q].match

-----------------------------------------------------------------------------
====
